---- MODULE Spec2Model ----
(***************************************************************************)
(* Model of the jigsaw puzzle game: the PuzzleGame component (piece set,   *)
(* drag and drop, completion detection, scoring, saving the result) and    *)
(* the GameDashboard's fetchUserStats in its two variants.                 *)
(*                                                                         *)
(* Spec      : one mounted PuzzleGame, from its first render on.           *)
(* SpecStats : fetchUserStats over bounded contents of the data store.     *)
(* SpecVisit : the dashboard with one PuzzleGame: select, play, go back.   *)
(***************************************************************************)
EXTENDS Integers, Sequences, FiniteSets, TLC

VARIABLES
    \* ---- PuzzleGame ----
    pc,               \* "rendered": first render done, mount effects pending; "playing"
    levelPieces,      \* level.pieces
    pieces,           \* useState<PuzzlePiece[]>([])
    draggedPiece,     \* useState<number | null>(null)
    gameStartTime,    \* useState(Date.now())
    gameCompleted,    \* useState(false)
    completionTime,   \* useState<number | null>(null)
    now,              \* Date.now(), milliseconds
    toasts,           \* toast(...) calls, in order
    consoleErrors,    \* number of console.error calls
    inflight,         \* game_progress inserts awaited by saveGameResult
    insertCalls,      \* number of supabase insert invocations
    insertOutcomes,   \* how each awaited insert settled, in order
    table,            \* rows of game_progress for this user
    \* ---- history of the session (not program state) ----
    lastDrop,         \* target of the last handleDrop that had a dragged piece, whether it
                      \* evicted another piece and whether it moved a placed piece;
                      \* forgotten at the next drag
    \* ---- GameDashboard ----
    queryFails,       \* the data store answers the stats query with data = null
    statsRow,         \* the user's row of user_game_stats, if any
    userStats,        \* useState<any>(null) of the game_progress dashboard
    userStatsRow,     \* useState<any>(null) of the user_game_stats dashboard
    fetched,          \* history: the dashboards whose fetchUserStats has completed
    queries           \* game_progress selects awaited by fetchUserStats calls

vars == <<pc, levelPieces, pieces, draggedPiece, gameStartTime, gameCompleted,
          completionTime, now, toasts, consoleErrors, inflight, insertCalls,
          insertOutcomes, table, lastDrop,
          queryFails, statsRow, userStats, userStatsRow, fetched, queries>>

gameVars == <<pc, levelPieces, pieces, draggedPiece, gameStartTime, gameCompleted,
              completionTime, now, toasts, consoleErrors, inflight, insertCalls,
              insertOutcomes, lastDrop>>

dashVars == <<queryFails, statsRow, userStats, userStatsRow, fetched, queries>>

(***************************************************************************)
(* Bounds                                                                  *)
(***************************************************************************)
MaxPieces == 3

MaxResults == 2

\* Puzzle sessions (and so inserts) of one visit of the dashboard.
MaxSessions == 1

\* Largest level played in a visit of the dashboard.
MaxVisitPieces == 2

\* Largest elapsed time, in seconds, the scoring function is tabulated for.
MaxElapsed == 2000

\* Date.now() at the first render.
StartEpochs == {500}

\* Milliseconds since the first render at which the clock is observed.
ElapsedMs == {900999, 2000500}

\* time_taken values of the Results already in the data store.
StatTimes == {0, 90, 120}

(***************************************************************************)
(* null and non-null values                                                *)
(***************************************************************************)
Null == <<>>

Some(x) == <<x>>

Val(o) == o[1]

(***************************************************************************)
(* PuzzleGame                                                              *)
(***************************************************************************)
Piece(i) ==
    [id |-> i, correctPosition |-> i, currentPosition |-> -1, isPlaced |-> FALSE]

\* The loop run once too often (i <= level.pieces).
InitialPiecesOneMore(n) == [k \in 1..(n + 1) |-> Piece(k - 1)]

\* The loop of initializePuzzle: pieces 0 .. n-1 in index order.
InitialPieces(n) == [k \in 1..n |-> Piece(k - 1)]

Perms(n) == {f \in [1..n -> 1..n] : \A a, b \in 1..n : f[a] = f[b] => a = b}

\* [...initialPieces].sort(() => Math.random() - 0.5): some reordering.
Shuffles(ps) == {[k \in 1..Len(ps) |-> ps[f[k]]] : f \in Perms(Len(ps))}

\* Array.prototype.findIndex / find, 1-based; 0 when nothing matches.
FindById(ps, pid) ==
    LET hits == {k \in 1..Len(ps) : ps[k].id = pid}
    IN IF hits = {} THEN 0 ELSE CHOOSE k \in hits : \A j \in hits : k <= j

FindByPosition(ps, pos) ==
    LET hits == {k \in 1..Len(ps) : ps[k].currentPosition = pos}
    IN IF hits = {} THEN 0 ELSE CHOOSE k \in hits : \A j \in hits : k <= j

\* The updater without the eviction of the occupant.
DropPiecesNoEvict(ps, dragged, targetPosition) ==
    LET pieceIndex == FindById(ps, dragged)
    IN IF pieceIndex = 0
       THEN ps
       ELSE [ps EXCEPT ![pieceIndex].currentPosition = targetPosition,
                       ![pieceIndex].isPlaced = TRUE]

\* The updater exchanging the two pieces: the occupant takes the slot the
\* dragged piece came from.
DropPiecesSwap(ps, dragged, targetPosition) ==
    LET pieceIndex == FindById(ps, dragged)
        occupied == FindByPosition(ps, targetPosition)
        source == ps[pieceIndex].currentPosition
        swapped == IF occupied # 0
                   THEN [ps EXCEPT ![occupied].currentPosition = source,
                                   ![occupied].isPlaced = source >= 0]
                   ELSE ps
    IN IF pieceIndex = 0
       THEN ps
       ELSE [swapped EXCEPT ![pieceIndex].currentPosition = targetPosition,
                            ![pieceIndex].isPlaced = TRUE]

\* The updater handleDrop passes to setPieces.
DropPieces(ps, dragged, targetPosition) ==
    LET pieceIndex == FindById(ps, dragged)
        occupied == FindByPosition(ps, targetPosition)
        evicted == IF occupied # 0
                   THEN [ps EXCEPT ![occupied].currentPosition = -1,
                                   ![occupied].isPlaced = FALSE]
                   ELSE ps
    IN IF pieceIndex = 0
       THEN ps
       ELSE [evicted EXCEPT ![pieceIndex].currentPosition = targetPosition,
                            ![pieceIndex].isPlaced = TRUE]

\* pieces.every(piece => piece.isPlaced && currentPosition === correctPosition)
AllPlaced(ps) ==
    \A k \in 1..Len(ps) :
        ps[k].isPlaced /\ ps[k].currentPosition = ps[k].correctPosition

Max(a, b) == IF a >= b THEN a ELSE b

\* Math.floor((endTime - gameStartTime) / 1000)
TimeTaken(endTime, startTime) == (endTime - startTime) \div 1000

\* The score without its floor of 100.
ScoreUnclamped(timeTaken) == 1000 - timeTaken

\* Math.max(1000 - timeTaken, 100)
Score(timeTaken) == Max(1000 - timeTaken, 100)

\* The row saveGameResult inserts.
ResultRow(timeTaken, at) ==
    [time_taken |-> timeTaken, score |-> Score(timeTaken), completed_at |-> Some(at)]

\* What checkGameCompletion sees and sets.
Session ==
    [gameCompleted |-> gameCompleted, completionTime |-> completionTime,
     inflight |-> inflight, insertCalls |-> insertCalls, toasts |-> toasts]

\* checkGameCompletion over the piece array ps of the render it closes over.
CheckGameCompletion(ps, s) ==
    IF AllPlaced(ps) /\ ~s.gameCompleted
    THEN LET timeTaken == TimeTaken(now, gameStartTime)
         IN [gameCompleted |-> TRUE,
             completionTime |-> Some(timeTaken),
             inflight |-> Append(s.inflight, ResultRow(timeTaken, now)),
             insertCalls |-> s.insertCalls + 1,
             toasts |-> Append(s.toasts, "Congratulations")]
    ELSE s

Commit(s) ==
    /\ gameCompleted' = s.gameCompleted
    /\ completionTime' = s.completionTime
    /\ inflight' = s.inflight
    /\ insertCalls' = s.insertCalls
    /\ toasts' = s.toasts

\* The effects of the first commit, in declaration order: initializePuzzle, then
\* checkGameCompletion closing over the first render (pieces = []); then the
\* [pieces] effect of the re-render that setPieces(shuffled) causes.
MountEffects ==
    /\ pc = "rendered"
    /\ \E shuffled \in Shuffles(InitialPieces(levelPieces)) :
          /\ pieces' = shuffled
          /\ Commit(CheckGameCompletion(shuffled, CheckGameCompletion(pieces, Session)))
    /\ pc' = "playing"
    /\ UNCHANGED <<levelPieces, draggedPiece, gameStartTime, now, consoleErrors,
                   insertOutcomes, table, lastDrop>>
    /\ UNCHANGED dashVars

handleDragStart(pieceId) ==
    /\ pc = "playing"
    /\ draggedPiece' = Some(pieceId)
    /\ lastDrop' = Null
    /\ UNCHANGED <<pc, levelPieces, pieces, gameStartTime, gameCompleted,
                   completionTime, now, toasts, consoleErrors, inflight,
                   insertCalls, insertOutcomes, table>>
    /\ UNCHANGED dashVars

\* handleDrop, with the [pieces] effect (checkGameCompletion) of the re-render
\* that its setPieces causes.
handleDrop(targetPosition) ==
    /\ pc = "playing"
    /\ IF draggedPiece = Null
       THEN UNCHANGED vars
       ELSE LET newPieces == DropPieces(pieces, Val(draggedPiece), targetPosition)
                occupied == FindByPosition(pieces, targetPosition)
                moved == FindById(pieces, Val(draggedPiece))
            IN /\ pieces' = newPieces
               /\ draggedPiece' = Null
               /\ Commit(CheckGameCompletion(newPieces, Session))
               /\ lastDrop' = Some([target |-> targetPosition,
                                    evicted |-> occupied # 0 /\ occupied # moved,
                                    moved |-> moved # 0
                                              /\ pieces[moved].currentPosition >= 0
                                              /\ pieces[moved].currentPosition
                                                     # targetPosition])
               /\ UNCHANGED <<pc, levelPieces, gameStartTime, now, consoleErrors,
                              insertOutcomes, table>>
               /\ UNCHANGED dashVars

\* The continuation rolling the completion back when the insert failed.
InsertSettlesRollback(outcome) ==
    /\ inflight # <<>>
    /\ inflight' = Tail(inflight)
    /\ insertOutcomes' = Append(insertOutcomes, outcome)
    /\ table' = IF outcome = "ok" THEN Append(table, Head(inflight)) ELSE table
    /\ toasts' = IF outcome = "error"
                 THEN Append(toasts, "Failed to save your progress")
                 ELSE toasts
    /\ consoleErrors' = IF outcome = "ok" THEN consoleErrors ELSE consoleErrors + 1
    /\ gameCompleted' = IF outcome = "ok" THEN gameCompleted ELSE FALSE
    /\ completionTime' = IF outcome = "ok" THEN completionTime ELSE Null
    /\ UNCHANGED <<pc, levelPieces, pieces, draggedPiece, gameStartTime,
                   now, insertCalls, lastDrop>>
    /\ UNCHANGED dashVars

\* The continuation of saveGameResult after its await: the insert resolved
\* without error ("ok"), resolved with an error ("error") or rejected ("thrown").
InsertSettles(outcome) ==
    /\ inflight # <<>>
    /\ inflight' = Tail(inflight)
    /\ insertOutcomes' = Append(insertOutcomes, outcome)
    /\ table' = IF outcome = "ok" THEN Append(table, Head(inflight)) ELSE table
    /\ toasts' = IF outcome = "error"
                 THEN Append(toasts, "Failed to save your progress")
                 ELSE toasts
    /\ consoleErrors' = IF outcome = "ok" THEN consoleErrors ELSE consoleErrors + 1
    /\ UNCHANGED <<pc, levelPieces, pieces, draggedPiece, gameStartTime,
                   gameCompleted, completionTime, now, insertCalls, lastDrop>>
    /\ UNCHANGED dashVars

\* Time passes. Date.now() is read only by checkGameCompletion while
\* gameCompleted is false.
Tick ==
    /\ ~gameCompleted
    /\ \E e \in ElapsedMs : gameStartTime + e > now /\ now' = gameStartTime + e
    /\ UNCHANGED <<pc, levelPieces, pieces, draggedPiece, gameStartTime,
                   gameCompleted, completionTime, toasts, consoleErrors, inflight,
                   insertCalls, insertOutcomes, table, lastDrop>>
    /\ UNCHANGED dashVars

DashInit ==
    /\ queryFails = FALSE
    /\ statsRow = Null
    /\ userStats = Null
    /\ userStatsRow = Null
    /\ fetched = {}
    /\ queries = <<>>

\* The first render of PuzzleGame for a level.
Init ==
    /\ pc = "rendered"
    /\ levelPieces \in 1..MaxPieces
    /\ pieces = <<>>
    /\ draggedPiece = Null
    /\ now \in StartEpochs
    /\ gameStartTime = now
    /\ gameCompleted = FALSE
    /\ completionTime = Null
    /\ toasts = <<>>
    /\ consoleErrors = 0
    /\ inflight = <<>>
    /\ insertCalls = 0
    /\ insertOutcomes = <<>>
    /\ table = <<>>
    /\ lastDrop = Null
    /\ DashInit

Next ==
    \/ MountEffects
    \/ \E pieceId \in 0..(levelPieces - 1) : handleDragStart(pieceId)
    \/ \E targetPosition \in 0..(levelPieces - 1) : handleDrop(targetPosition)
    \/ \E outcome \in {"ok", "error", "thrown"} : InsertSettles(outcome)
    \/ Tick

Spec == Init /\ [][Next]_vars

(***************************************************************************)
(* GameDashboard: fetchUserStats                                           *)
(***************************************************************************)
\* JavaScript truthiness of a number.
Truthy(n) == n # 0

\* data.filter(record => record.completed_at).length
RECURSIVE CompletedPuzzles(_)
CompletedPuzzles(data) ==
    IF data = <<>> THEN 0
    ELSE (IF Head(data).completed_at # Null THEN 1 ELSE 0) + CompletedPuzzles(Tail(data))

\* data.reduce((sum, record) => sum + (record.score || 0), 0)
RECURSIVE TotalScore(_)
TotalScore(data) ==
    IF data = <<>> THEN 0
    ELSE (IF Truthy(Head(data).score) THEN Head(data).score ELSE 0)
         + TotalScore(Tail(data))

\* data.filter(record => record.time_taken)
\*     .reduce((min, record) => Math.min(min, record.time_taken), Infinity),
\* then bestTime === Infinity ? null : bestTime
BestTime(data) ==
    LET times == {data[k].time_taken : k \in {j \in 1..Len(data) : Truthy(data[j].time_taken)}}
    IN IF times = {} THEN Null
       ELSE Some(CHOOSE t \in times : \A u \in times : t <= u)

ZeroStats == [puzzles_completed |-> 0, total_score |-> 0, best_time |-> Null]

\* What the game_progress dashboard passes to setUserStats for the answer
\* data (Null, or Some(rows)) of its query.
ProgressStats(data) ==
    IF data # Null /\ Len(Val(data)) > 0
    THEN [puzzles_completed |-> CompletedPuzzles(Val(data)),
          total_score |-> TotalScore(Val(data)),
          best_time |-> BestTime(Val(data))]
    ELSE ZeroStats

\* fetchUserStats of the dashboard that queries game_progress.
fetchUserStats ==
    /\ pc = "dashboard"
    /\ LET data == IF queryFails THEN Null ELSE Some(table)
       IN userStats' = Some(ProgressStats(data))
    /\ fetched' = fetched \cup {"game_progress"}
    /\ UNCHANGED <<queryFails, statsRow, userStatsRow, table, queries>>
    /\ UNCHANGED gameVars

\* What the user_game_stats dashboard passes to setUserStats for the answer
\* data (Null, or Some(row)) of its .single() query.
RowStats(data) == data

\* fetchUserStats of the dashboard that reads the one row of user_game_stats;
\* .single() answers data = null when the query fails or finds no row.
fetchUserStatsRow ==
    /\ pc = "dashboard"
    /\ LET data == IF queryFails THEN Null ELSE statsRow
       IN userStatsRow' = RowStats(data)
    /\ fetched' = fetched \cup {"user_game_stats"}
    /\ UNCHANGED <<queryFails, statsRow, userStats, table, queries>>
    /\ UNCHANGED gameVars

\* AggregatedStats of a Result set: count, sum of score, least elapsedSeconds.
AggregatedStats(results) ==
    LET times == {results[k].time_taken : k \in 1..Len(results)}
        scores == [k \in 1..Len(results) |-> results[k].score]
        Sum[k \in 0..Len(results)] == IF k = 0 THEN 0 ELSE Sum[k - 1] + scores[k]
    IN [puzzles_completed |-> Len(results),
        total_score |-> Sum[Len(results)],
        best_time |-> IF times = {} THEN Null
                      ELSE Some(CHOOSE t \in times : \A u \in times : t <= u)]

RECURSIVE SeqsUpTo(_, _)
SeqsUpTo(S, n) ==
    IF n = 0 THEN {<<>>}
    ELSE LET shorter == SeqsUpTo(S, n - 1)
         IN shorter \cup {Append(q, x) : q \in shorter, x \in S}

\* Results of earlier sessions, as saveGameResult wrote them.
StoredResults == {ResultRow(t, 1) : t \in StatTimes}

\* The dashboard is shown (no level selected); the data store holds the
\* user's earlier Results.
InitStats ==
    /\ pc = "dashboard"
    /\ levelPieces = 0
    /\ pieces = <<>>
    /\ draggedPiece = Null
    /\ now \in StartEpochs
    /\ gameStartTime = now
    /\ gameCompleted = FALSE
    /\ completionTime = Null
    /\ toasts = <<>>
    /\ consoleErrors = 0
    /\ inflight = <<>>
    /\ insertCalls = 0
    /\ insertOutcomes = <<>>
    /\ lastDrop = Null
    /\ table \in SeqsUpTo(StoredResults, MaxResults)
    /\ queryFails \in BOOLEAN
    /\ statsRow \in {Null, Some(AggregatedStats(table))}
    /\ userStats = Null
    /\ userStatsRow = Null
    /\ fetched = {}
    /\ queries = <<>>

NextStats ==
    \/ fetchUserStats
    \/ fetchUserStatsRow

SpecStats == InitStats /\ [][NextStats]_vars

(***************************************************************************)
(* GameDashboard with a PuzzleGame: select a level, play, go back          *)
(***************************************************************************)
RemoveAt(q, i) == [k \in 1..(Len(q) - 1) |-> IF k < i THEN q[k] ELSE q[k + 1]]

\* The select of a fetchUserStats call, on its way to the data store.
SentQuery == [answered |-> FALSE, data |-> Null]

\* The synchronous part of fetchUserStats: the select is issued and awaited.
StartFetch == queries' = Append(queries, SentQuery)

\* onClick of "Start Puzzle": setSelectedLevel(level) mounts a PuzzleGame,
\* whose first render sets up its state.
SelectLevel(n) ==
    /\ pc = "dashboard"
    /\ insertCalls < MaxSessions
    /\ pc' = "rendered"
    /\ levelPieces' = n
    /\ pieces' = <<>>
    /\ draggedPiece' = Null
    /\ gameStartTime' = now
    /\ gameCompleted' = FALSE
    /\ completionTime' = Null
    /\ lastDrop' = Null
    /\ UNCHANGED <<now, toasts, consoleErrors, inflight, insertCalls,
                   insertOutcomes, table>>
    /\ UNCHANGED dashVars

\* handleBackToLevels: setSelectedLevel(null) unmounts the PuzzleGame (its
\* state is read no more) and fetchUserStats is called.
handleBackToLevels ==
    /\ pc = "playing"
    /\ pc' = "dashboard"
    /\ StartFetch
    /\ UNCHANGED <<levelPieces, pieces, draggedPiece, gameStartTime, gameCompleted,
                   completionTime, now, toasts, consoleErrors, inflight,
                   insertCalls, insertOutcomes, table, lastDrop>>
    /\ UNCHANGED <<queryFails, statsRow, userStats, userStatsRow, fetched>>

\* The data store executes an awaited select over the rows it holds then.
QueryExecutes(i) ==
    /\ ~queries[i].answered
    /\ queries' = [queries EXCEPT ![i] =
                      [answered |-> TRUE,
                       data |-> IF queryFails THEN Null ELSE Some(table)]]
    /\ UNCHANGED gameVars
    /\ UNCHANGED <<table, queryFails, statsRow, userStats, userStatsRow, fetched>>

\* The continuation of fetchUserStats after its await, for an answered select.
QueryReturns(i) ==
    /\ queries[i].answered
    /\ userStats' = Some(ProgressStats(queries[i].data))
    /\ queries' = RemoveAt(queries, i)
    /\ fetched' = fetched \cup {"game_progress"}
    /\ UNCHANGED gameVars
    /\ UNCHANGED <<table, queryFails, statsRow, userStatsRow>>

\* The dashboard after its mount: no level selected, the select of the mount
\* effect's fetchUserStats awaited; the data store answers every select.
InitVisit ==
    /\ pc = "dashboard"
    /\ levelPieces = 0
    /\ pieces = <<>>
    /\ draggedPiece = Null
    /\ now \in StartEpochs
    /\ gameStartTime = now
    /\ gameCompleted = FALSE
    /\ completionTime = Null
    /\ toasts = <<>>
    /\ consoleErrors = 0
    /\ inflight = <<>>
    /\ insertCalls = 0
    /\ insertOutcomes = <<>>
    /\ lastDrop = Null
    /\ table \in SeqsUpTo(StoredResults, MaxResults - 1)
    /\ queryFails = FALSE
    /\ statsRow = Null
    /\ userStats = Null
    /\ userStatsRow = Null
    /\ fetched = {}
    /\ queries = <<SentQuery>>

NextVisit ==
    \/ \E n \in 1..MaxVisitPieces : SelectLevel(n)
    \/ MountEffects
    \/ \E pieceId \in 0..(levelPieces - 1) : handleDragStart(pieceId)
    \/ \E targetPosition \in 0..(levelPieces - 1) : handleDrop(targetPosition)
    \/ \E outcome \in {"ok", "error", "thrown"} : InsertSettles(outcome)
    \/ Tick
    \/ handleBackToLevels
    \/ \E i \in 1..Len(queries) : QueryExecutes(i)
    \/ \E i \in 1..Len(queries) : QueryReturns(i)

SpecVisit == InitVisit /\ [][NextVisit]_vars

(***************************************************************************)
(* Properties                                                              *)
(***************************************************************************)
\* Every one of the level's pieces is placed on its correct slot.
LevelAllCorrect(ps) == Len(ps) = levelPieces /\ AllPlaced(ps)

\* The piece with id pid.
PieceOf(ps, pid) == CHOOSE p \in {ps[k] : k \in 1..Len(ps)} : p.id = pid

\* This step is a handleDrop onto slot t with a piece being dragged.
DropStep(t) ==
    /\ draggedPiece # Null
    /\ lastDrop = Null
    /\ lastDrop' # Null
    /\ Val(lastDrop').target = t

Count(q, x) == Cardinality({k \in 1..Len(q) : q[k] = x})

\* C1: once the puzzle is initialized, no two distinct pieces have the same
\* currentPosition s with s >= 0, whatever drags and drops have happened.
C1_OnePiecePerSlot ==
    pc = "playing" =>
        \A a, b \in 1..Len(pieces) :
            (a # b /\ pieces[a].currentPosition >= 0)
                => pieces[a].currentPosition # pieces[b].currentPosition

\* A placed piece has just been dropped onto a slot another piece occupied.
C1_Witness ==
    /\ pc = "playing"
    /\ lastDrop # Null
    /\ Val(lastDrop).evicted
    /\ Val(lastDrop).moved

\* C2: a step completes the game (gameCompleted becomes true) if and only if it
\* leaves every one of the level's pieces placed on its correct slot while the
\* game is not yet completed.
C2_CompletionIffAllCorrect ==
    [][(~gameCompleted /\ gameCompleted')
           <=> (~gameCompleted /\ LevelAllCorrect(pieces'))]_vars

\* C3: the insert is invoked by exactly the first step that leaves all the
\* level's pieces on their correct slots, and by no other step.
C3_InsertExactlyOnce ==
    [][insertCalls' = insertCalls
           + (IF insertCalls = 0 /\ LevelAllCorrect(pieces') THEN 1 ELSE 0)]_vars

\* C4: when piece A is being dragged and another piece B occupies slot t, a drop
\* on t leaves A on t and placed, B in the staging area (-1) and not placed,
\* and no piece being dragged.
C4_DropOnOccupied ==
    [][\A t \in 0..(levelPieces - 1) :
           DropStep(t) =>
               \A A, B \in 0..(levelPieces - 1) :
                   (/\ A # B
                    /\ draggedPiece = Some(A)
                    /\ PieceOf(pieces, B).currentPosition = t)
                   => /\ PieceOf(pieces', A).currentPosition = t
                      /\ PieceOf(pieces', A).isPlaced
                      /\ PieceOf(pieces', B).currentPosition = -1
                      /\ ~PieceOf(pieces', B).isPlaced
                      /\ draggedPiece' = Null]_vars

\* A drop has just evicted another piece: the dropped piece sits on the target
\* and some piece is back in the staging area.
C4_Witness ==
    /\ lastDrop # Null
    /\ Val(lastDrop).evicted
    /\ draggedPiece = Null
    /\ \E k \in 1..Len(pieces) : pieces[k].currentPosition = Val(lastDrop).target
    /\ \E k \in 1..Len(pieces) : ~pieces[k].isPlaced

\* The row of a Result of this session: its time is the whole seconds between
\* the first render and the completion, its score max(1000 - time, 100).
ResultRowOK(r) ==
    /\ r.time_taken = (Val(r.completed_at) - gameStartTime) \div 1000
    /\ completionTime = Some(r.time_taken)
    /\ r.score >= 100
    /\ r.score >= 1000 - r.time_taken
    /\ r.score \in {100, 1000 - r.time_taken}
    /\ r.score \in 100..1000
    /\ (r.time_taken = 0 => r.score = 1000)
    /\ (r.time_taken >= 900 => r.score = 100)

\* The score over 0 .. MaxElapsed seconds.
ScoreTableOK ==
    \A e \in 0..MaxElapsed :
        /\ Score(e) \in 100..1000
        /\ (e = 0 => Score(e) = 1000)
        /\ (e >= 900 => Score(e) = 100)
        /\ (e < MaxElapsed => Score(e + 1) <= Score(e))

\* C5: every Result of the session carries the whole seconds elapsed at the
\* completion and the score max(1000 - seconds, 100); the score lies in
\* [100, 1000], is 1000 at 0 seconds, 100 from 900 seconds on, and never
\* increases with the time.
C5_ResultTimeAndScore ==
    /\ pc \in {"rendered", "playing"} =>
          /\ \A k \in 1..Len(inflight) : ResultRowOK(inflight[k])
          /\ \A k \in 1..Len(table) : ResultRowOK(table[k])
    /\ ScoreTableOK

\* A Result of a session that took more than 900 seconds has been stored.
C5_Witness ==
    /\ pc = "playing"
    /\ table # <<>>
    /\ table[1].time_taken > 900
    /\ table[1].score = 100

\* C6: every insert that failed (an error answer or a rejection) has its
\* failure notification, and no insert is issued again.
C6_FailureSurfaced ==
    /\ Count(toasts, "Failed to save your progress")
           = Count(insertOutcomes, "error") + Count(insertOutcomes, "thrown")
    /\ insertCalls = Len(inflight) + Len(insertOutcomes)

\* C7: no step makes gameCompleted false again, and a step in which an insert
\* settles changes neither the pieces nor the completion time.
C7_CompletedTerminal ==
    [][/\ gameCompleted => gameCompleted'
       /\ Len(insertOutcomes') > Len(insertOutcomes)
              => /\ pieces' = pieces
                 /\ completionTime' = completionTime
                 /\ gameCompleted' = gameCompleted]_vars

\* The game is completed, its insert has failed and a piece has been dropped.
C7_Witness ==
    /\ gameCompleted
    /\ insertOutcomes # <<>>
    /\ insertOutcomes[1] \in {"error", "thrown"}
    /\ lastDrop # Null

\* C8: for a non-empty set of Results, the stats fetched from game_progress
\* are their number, the sum of their scores and the least of their times
\* (a time of 0 included).
C8_StatsOfResults ==
    ("game_progress" \in fetched /\ ~queryFails /\ table # <<>>)
        => userStats = Some(AggregatedStats(table))

\* C9: with no Results, or a failed query, either dashboard's fetch yields the
\* zero stats {0, 0, none}.
C9_ZeroStats ==
    (table = <<>> \/ queryFails) =>
        /\ "game_progress" \in fetched => userStats = Some(ZeroStats)
        /\ "user_game_stats" \in fetched => userStatsRow = Some(ZeroStats)

\* C10: the step that initializes the puzzle leaves exactly level.pieces
\* pieces, with pairwise distinct ids that form 0 .. level.pieces - 1, each
\* with correctPosition = id, currentPosition = -1 and isPlaced false.
C10_Initialization ==
    [][(pc = "rendered" /\ pc' = "playing") =>
           /\ Len(pieces') = levelPieces
           /\ \A a, b \in 1..Len(pieces') :
                  a # b => pieces'[a].id # pieces'[b].id
           /\ {pieces'[k].id : k \in 1..Len(pieces')} = 0..(levelPieces - 1)
           /\ \A k \in 1..Len(pieces') :
                  /\ pieces'[k].correctPosition = pieces'[k].id
                  /\ pieces'[k].currentPosition = -1
                  /\ ~pieces'[k].isPlaced]_vars

\* The puzzle has just been initialized in an order other than 0, 1, 2, ...
C10_Witness ==
    /\ pc = "playing"
    /\ Len(pieces) >= 2
    /\ pieces[1].id # 0
    /\ \A k \in 1..Len(pieces) : pieces[k].currentPosition = -1
    /\ draggedPiece = Null
    /\ lastDrop = Null

\* C11: a drop with a dragged piece that was placed on another slot s leaves s
\* empty; every piece other than the dragged one and the one that occupied
\* the target keeps its currentPosition and isPlaced; and while no piece is
\* being dragged no step, a drop included, changes the piece set.
C11_DirectMove ==
    [][/\ (pc = "playing" /\ draggedPiece = Null) => pieces' = pieces
       /\ \A t \in 0..(levelPieces - 1) :
              DropStep(t) =>
                  LET A == Val(draggedPiece)
                      s == PieceOf(pieces, A).currentPosition
                  IN /\ (s >= 0 /\ s # t)
                            => \A k \in 1..Len(pieces') :
                                   pieces'[k].currentPosition # s
                     /\ \A C \in 0..(levelPieces - 1) :
                            (C # A /\ PieceOf(pieces, C).currentPosition # t)
                                => /\ PieceOf(pieces', C).currentPosition
                                          = PieceOf(pieces, C).currentPosition
                                   /\ PieceOf(pieces', C).isPlaced
                                          = PieceOf(pieces, C).isPlaced]_vars

\* A placed piece has just been moved onto a slot another piece occupied,
\* with a third piece on the board or in the staging area.
C11_Witness ==
    /\ lastDrop # Null
    /\ Val(lastDrop).moved
    /\ Val(lastDrop).evicted
    /\ Len(pieces) >= 3
    /\ \E k \in 1..Len(pieces) :
           /\ pieces[k].currentPosition # Val(lastDrop).target
           /\ pieces[k].isPlaced

\* C12: back on the dashboard after a completed session, once no insert and
\* no select is awaited any more and every insert succeeded, the stats shown
\* are those of the stored Results, the session's Result included.
C12_StatsIncludeResult ==
    (/\ pc = "dashboard"
     /\ gameCompleted
     /\ inflight = <<>>
     /\ queries = <<>>
     /\ \A k \in 1..Len(insertOutcomes) : insertOutcomes[k] = "ok")
        => userStats = Some(ProgressStats(Some(table)))

====
